---- MODULE Spec2Model ----
(***************************************************************************)
(* A model of oktad: the AWS credentials store (src/aws/credentials.rs),   *)
(* the run of main (src/main.rs), the Okta login state machine             *)
(* (src/okta/auth.rs) and the SAML assertion parser (src/saml/mod.rs).     *)
(*                                                                         *)
(* The credentials file is a sequence of tokens: the punctuation bytes     *)
(* "[", "]", "=", "\r", "\n", one token per letter of a profile name or a  *)
(* value, and one token per key name (a key name is never split here).     *)
(***************************************************************************)
EXTENDS Integers, Sequences, FiniteSets, TLC

VARIABLES
  disk,          \* the credentials file on disk: [exists, bytes]
  disk0,         \* the file as it was before the program started
  fileSections,  \* the sections the initial file was written with, in file order
  store,         \* the CredentialsStore: [open, pos, credentials]
  phase,         \* the store's life: "closed", "loaded", "saved", "failed"
  call,          \* the last call on the store: [op, name, creds, result]
  pc,            \* main: the step it is at
  orgs,          \* main: the matched organizations, each the names of its matched profiles
  orgIdx,        \* main: the organization the loop is at
  profIdx,       \* main: the profile the fetch loop is at
  orgCredentials,\* main: org_credentials, the HashMap of the organization at hand
  failure,       \* main: the step that returned the error main ended with, or "none"
  log,           \* main: the calls made so far, in order
  lock,          \* main: the Mutex around the store: "free" or "held"
  lpc,           \* get_session_token: the step it is at
  response,      \* get_session_token: the LoginResponse of the authentication request
  factor,        \* get_session_token: the index of the factor in use, 0 for none
  factor_prompt_response, \* get_session_token: the response of the priming verification
  mfa_code,      \* get_session_token: the passcode the operator gave
  factor_provided_response, \* get_session_token: the response of the verification with the passcode
  outcome,       \* get_session_token: what the call ended with: [kind, value]
  trace,         \* get_session_token: the requests and prompts so far, in order
  samlInput,     \* Response::from_str: the string it is given
  samlResult,    \* Response::from_str: what it returned
  fpc,           \* fetch_credentials: the step it is at
  profile,       \* fetch_credentials: the profile it is called for
  links,         \* fetch_credentials: the application links the client listed
  app_link,      \* fetch_credentials: the link found among them
  role,          \* fetch_credentials: the role found in the assertion
  fetched,       \* fetch_credentials: what it returned: [kind, credentials, error]
  calls          \* fetch_credentials: the calls to the client and to AWS, in order

storeVars == <<disk, disk0, fileSections, store, phase, call>>

runVars == <<pc, orgs, orgIdx, profIdx, orgCredentials, failure, log, lock>>

loginVars ==
  <<lpc, response, factor, factor_prompt_response, mfa_code, factor_provided_response,
    outcome, trace>>

samlVars == <<samlInput, samlResult>>

fetchVars == <<fpc, profile, links, app_link, role, fetched, calls>>

vars == <<storeVars, runVars, loginVars, samlVars, fetchVars>>

(***************************************************************************)
(* Bounds and input sets                                                   *)
(***************************************************************************)
MaxSections == 2
MaxOrgs == 2

\* Profile names, as letters; BTreeMap<String, _> orders them bytewise.
Names == {<<"a">>, <<"a", "b">>}

Alphabet == <<"a", "b">>

\* Field values of two lengths, one family per field.
AccessKeys == {<<"A">>, <<"A", "A">>}
SecretKeys == {<<"S">>, <<"S", "S">>}
SessionTokens == {<<"T">>, <<"T", "T">>}

LF == <<"\n">>
CRLF == <<"\r", "\n">>

(***************************************************************************)
(* ProfileCredentials (credentials.rs 109-136)                             *)
(***************************************************************************)
Sts(a, s, t) ==
  [kind |-> "Sts", access_key_id |-> a, secret_access_key |-> s, session_token |-> t]

Iam(a, s) ==
  [kind |-> "Iam", access_key_id |-> a, secret_access_key |-> s]

StsCredentials == {Sts(a, s, t) : a \in AccessKeys, s \in SecretKeys, t \in SessionTokens}

IamCredentials == {Iam(a, s) : a \in AccessKeys, s \in SecretKeys}

\* From<rusoto_sts::Credentials>: the three fields, each under its own name.
FromCredentials(creds) ==
  Sts(creds.access_key_id, creds.secret_access_key, creds.session_token)

EmptyMap == [n \in {} |-> Iam(<<>>, <<>>)]

(***************************************************************************)
(* Sequences                                                               *)
(***************************************************************************)
RECURSIVE Flatten(_)
Flatten(ss) == IF ss = <<>> THEN <<>> ELSE Head(ss) \o Flatten(Tail(ss))

RECURSIVE IndexOf(_, _, _)
\* the first index >= i of seq holding x, or 0
IndexOf(seq, x, i) ==
  IF i > Len(seq) THEN 0
  ELSE IF seq[i] = x THEN i ELSE IndexOf(seq, x, i + 1)

Rank(c) == CHOOSE i \in 1..Len(Alphabet) : Alphabet[i] = c

RECURSIVE StrLess(_, _)
\* String's Ord: lexicographic, a proper prefix first
StrLess(s, t) ==
  IF t = <<>> THEN FALSE
  ELSE IF s = <<>> THEN TRUE
  ELSE IF Head(s) = Head(t) THEN StrLess(Tail(s), Tail(t))
  ELSE Rank(Head(s)) < Rank(Head(t))

RECURSIVE SortedKeys(_)
\* BTreeMap's iteration order: the keys, ascending
SortedKeys(S) ==
  IF S = {} THEN <<>>
  ELSE LET m == CHOOSE x \in S : \A y \in S \ {x} : StrLess(x, y)
       IN <<m>> \o SortedKeys(S \ {m})

(***************************************************************************)
(* serde_ini::ser::to_writer over the BTreeMap (credentials.rs 60): one    *)
(* section per entry in key order, one key=value line per field in the     *)
(* variant's declaration order, every line ended by CRLF.                  *)
(***************************************************************************)
FieldLines(creds, eol) ==
  <<"aws_access_key_id", "=">> \o creds.access_key_id \o eol
  \o <<"aws_secret_access_key", "=">> \o creds.secret_access_key \o eol
  \o (IF creds.kind = "Sts"
      THEN <<"aws_session_token", "=">> \o creds.session_token \o eol
      ELSE <<>>)

WriteSection(name, creds, eol) ==
  <<"[">> \o name \o <<"]">> \o eol \o FieldLines(creds, eol)

Serialize(credentials) ==
  LET keys == SortedKeys(DOMAIN credentials)
  IN Flatten([i \in 1..Len(keys) |-> WriteSection(keys[i], credentials[keys[i]], CRLF)])

\* std::fs::File as Write: bytes go in at the file position, over what is
\* there, and the file grows when they reach past its end; nothing is cut.
WriteAt(bytes, pos, data) ==
  SubSeq(bytes, 1, pos) \o data \o SubSeq(bytes, pos + Len(data) + 1, Len(bytes))

(***************************************************************************)
(* serde_ini::de::from_read into BTreeMap<String, ProfileCredentials>      *)
(* (credentials.rs 103, 109-126)                                           *)
(***************************************************************************)
RECURSIVE SplitLines(_)
\* the lines of the file: cut at "\n", a "\r" before it dropped
SplitLines(bytes) ==
  IF bytes = <<>> THEN <<>>
  ELSE LET k == IndexOf(bytes, "\n", 1)
           raw == IF k = 0 THEN bytes ELSE SubSeq(bytes, 1, k - 1)
           line == IF raw # <<>> /\ raw[Len(raw)] = "\r"
                   THEN SubSeq(raw, 1, Len(raw) - 1) ELSE raw
           rest == IF k = 0 THEN <<>> ELSE SubSeq(bytes, k + 1, Len(bytes))
       IN <<line>> \o SplitLines(rest)

Item(type, name, key, value) ==
  [type |-> type, name |-> name, key |-> key, value |-> value]

\* one line of the file: a section header, a key=value pair, an empty line
ParseLine(line) ==
  IF line = <<>> THEN Item("empty", <<>>, "", <<>>)
  ELSE IF Head(line) = "["
  THEN IF line[Len(line)] = "]"
       THEN Item("section", SubSeq(line, 2, Len(line) - 1), "", <<>>)
       ELSE Item("error", <<>>, "", <<>>)
  ELSE LET k == IndexOf(line, "=", 1)
       IN IF k = 2
          THEN Item("value", <<>>, line[1], SubSeq(line, 3, Len(line)))
          ELSE Item("error", <<>>, "", <<>>)

RECURSIVE ReadSections(_, _)
\* the sections in file order, each with its key=value pairs in order
ReadSections(items, acc) ==
  IF items = <<>> THEN acc
  ELSE LET it == Head(items)
       IN IF it.type = "section"
          THEN ReadSections(Tail(items), Append(acc, [name |-> it.name, fields |-> <<>>]))
          ELSE IF it.type = "value" /\ acc # <<>>
          THEN ReadSections(Tail(items),
                 [acc EXCEPT ![Len(acc)].fields = Append(@, <<it.key, it.value>>)])
          ELSE ReadSections(Tail(items), acc)

\* a line that is no item, or a key=value pair before the first section
SyntaxOk(items) ==
  /\ \A i \in 1..Len(items) : items[i].type # "error"
  /\ \A i \in 1..Len(items) :
       items[i].type = "value" => \E j \in 1..(i - 1) : items[j].type = "section"

FieldCount(fields, key) == Cardinality({i \in 1..Len(fields) : fields[i][1] = key})

FieldValue(fields, key) == fields[CHOOSE i \in 1..Len(fields) : fields[i][1] = key][2]

BadProfile == [kind |-> "Bad"]

\* #[serde(untagged)]: the first variant that fits, Sts before Iam; a
\* variant fits when each of its fields is there once (a field of the other
\* variant is skipped, a field given twice is an error in both).
DeserializeProfile(fields) ==
  LET once(key) == FieldCount(fields, key) = 1
      twice == \E i, j \in 1..Len(fields) : i # j /\ fields[i][1] = fields[j][1]
  IN IF twice \/ ~once("aws_access_key_id") \/ ~once("aws_secret_access_key")
     THEN BadProfile
     ELSE IF once("aws_session_token")
     THEN Sts(FieldValue(fields, "aws_access_key_id"),
              FieldValue(fields, "aws_secret_access_key"),
              FieldValue(fields, "aws_session_token"))
     ELSE Iam(FieldValue(fields, "aws_access_key_id"),
              FieldValue(fields, "aws_secret_access_key"))

MapInsert(map, key, value) ==
  [k \in DOMAIN map \cup {key} |-> IF k = key THEN value ELSE map[k]]

RECURSIVE CollectMapFirstWins(_, _)
\* a visitor that keeps the first section of a name
CollectMapFirstWins(sections, map) ==
  IF sections = <<>> THEN map
  ELSE CollectMapFirstWins(Tail(sections),
         IF Head(sections).name \in DOMAIN map THEN map
         ELSE MapInsert(map, Head(sections).name, DeserializeProfile(Head(sections).fields)))

RECURSIVE CollectMap(_, _)
\* serde's BTreeMap visitor: each entry inserted in file order, so a later
\* section of a name replaces an earlier one
CollectMap(sections, map) ==
  IF sections = <<>> THEN map
  ELSE CollectMap(Tail(sections),
         MapInsert(map, Head(sections).name, DeserializeProfile(Head(sections).fields)))

from_read(bytes) ==
  LET lines == SplitLines(bytes)
      items == [i \in 1..Len(lines) |-> ParseLine(lines[i])]
      sections == ReadSections(items, <<>>)
      ok == /\ SyntaxOk(items)
            /\ \A i \in 1..Len(sections) : DeserializeProfile(sections[i].fields) # BadProfile
  IN [ok |-> ok,
      credentials |-> IF ok THEN CollectMap(sections, EmptyMap) ELSE EmptyMap]

(***************************************************************************)
(* CredentialsStore (credentials.rs 18-107)                                *)
(***************************************************************************)
ClosedStore == [open |-> FALSE, pos |-> 0, credentials |-> EmptyMap]

NoCall == [op |-> "none", name |-> <<>>, creds |-> BadProfile, result |-> "none"]

\* file.seek(SeekFrom::Start(0))
SeekFromStart == 0

\* impl TryFrom<File>: read the whole file, then seek back to its start
try_from_file(bytes) ==
  LET r == from_read(bytes)
  IN [ok |-> r.ok,
      store |-> IF r.ok
                THEN [open |-> TRUE, pos |-> SeekFromStart, credentials |-> r.credentials]
                ELSE ClosedStore]

\* set_profile without the match on the occupied entry's variant
set_profile_any_variant(credentials, name, creds) ==
  [result |-> "Ok", credentials |-> MapInsert(credentials, name, FromCredentials(creds))]

\* set_profile with or_insert for insert: an occupied entry is kept
set_profile_or_insert(credentials, name, creds) ==
  IF name \in DOMAIN credentials
  THEN IF credentials[name].kind = "Sts"
       THEN [result |-> "Ok", credentials |-> credentials]
       ELSE [result |-> "Err", credentials |-> credentials]
  ELSE [result |-> "Ok", credentials |-> MapInsert(credentials, name, FromCredentials(creds))]

\* set_profile that drops every other entry of the mapping
set_profile_alone(credentials, name, creds) ==
  [result |-> "Ok", credentials |-> MapInsert(EmptyMap, name, FromCredentials(creds))]

\* set_profile: an Sts entry is replaced, an Iam entry is refused, a vacant
\* entry is filled
set_profile(credentials, name, creds) ==
  IF name \in DOMAIN credentials
  THEN IF credentials[name].kind = "Sts"
       THEN [result |-> "Ok", credentials |-> MapInsert(credentials, name, FromCredentials(creds))]
       ELSE [result |-> "Err", credentials |-> credentials]
  ELSE [result |-> "Ok", credentials |-> MapInsert(credentials, name, FromCredentials(creds))]

\* save: the serialization written through the file handle, at its position
save(bytes, st) == WriteAt(bytes, st.pos, Serialize(st.credentials))

\* main is not running
RunIdle ==
  /\ pc = "idle"
  /\ orgs = <<>>
  /\ orgIdx = 0
  /\ profIdx = 0
  /\ orgCredentials = EmptyMap
  /\ failure = "none"
  /\ log = <<>>
  /\ lock = "free"

\* Option::None of a token
None == "None"

NoResponse ==
  [status |-> "none", state_token |-> None, session_token |-> None,
   embedded |-> FALSE, factors |-> 0]

NoOutcome == [kind |-> "none", value |-> ""]

\* get_session_token is not running
LoginIdle ==
  /\ lpc = "idle"
  /\ response = NoResponse
  /\ factor = 0
  /\ factor_prompt_response = NoResponse
  /\ mfa_code = None
  /\ factor_provided_response = NoResponse
  /\ outcome = NoOutcome
  /\ trace = <<>>

\* no store is in use
StoreIdle ==
  /\ fileSections = <<>>
  /\ disk = [exists |-> FALSE, bytes |-> <<>>]
  /\ disk0 = disk
  /\ store = ClosedStore
  /\ phase = "closed"
  /\ call = NoCall

NoInput == [encoding |-> "none", xml |-> "none", nodes |-> <<>>]

NoError == [what |-> "", text |-> <<>>]

NoSamlResult == [kind |-> "none", raw |-> NoInput, roles |-> {}, error |-> NoError]

\* Response::from_str is not running
SamlIdle ==
  /\ samlInput = NoInput
  /\ samlResult = NoSamlResult

NoProfile == [name |-> <<>>, application_name |-> "", role |-> <<>>, duration_seconds |-> 0]

NoLink == [app_name |-> "", label |-> "", link_url |-> ""]

NoRole == [provider_arn |-> <<>>, role_arn |-> <<>>]

NoFetch == [kind |-> "none", credentials |-> [kind |-> "Bad"], error |-> [step |-> "", name |-> <<>>, role |-> <<>>]]

\* fetch_credentials is not running
FetchIdle ==
  /\ fpc = "idle"
  /\ profile = NoProfile
  /\ links = <<>>
  /\ app_link = NoLink
  /\ role = NoRole
  /\ fetched = NoFetch
  /\ calls = <<>>

(***************************************************************************)
(* The store on its own: a file is opened and loaded, profiles are set,    *)
(* the store is saved (as the tests of credentials.rs drive it).           *)
(***************************************************************************)
\* what a section of the initial file holds: either variant, its values all
\* short or all long
FileCredentials ==
  {Sts(<<"A">>, <<"S">>, <<"T">>), Sts(<<"A", "A">>, <<"S", "S">>, <<"T", "T">>),
   Iam(<<"A">>, <<"S">>), Iam(<<"A", "A">>, <<"S", "S">>)}

FileSection == [name : Names, creds : FileCredentials]

FileSectionSeqs == UNION {[1..n -> FileSection] : n \in 0..MaxSections}

\* a credentials file as some writer left it: the sections in any order, a
\* name possibly more than once, lines ended by LF or by CRLF
Render(secs, eol) ==
  Flatten([i \in 1..Len(secs) |-> WriteSection(secs[i].name, secs[i].creds, eol)])

StoreInit ==
  /\ \E secs \in FileSectionSeqs, eol \in {LF, CRLF} :
       /\ fileSections = secs
       /\ disk = [exists |-> TRUE, bytes |-> Render(secs, eol)]
  /\ disk0 = disk
  /\ store = ClosedStore
  /\ phase = "closed"
  /\ call = NoCall
  /\ RunIdle
  /\ LoginIdle
  /\ SamlIdle
  /\ FetchIdle

\* CredentialsStore::try_from(file)
Load ==
  /\ phase = "closed"
  /\ LET r == try_from_file(disk.bytes)
     IN /\ store' = r.store
        /\ phase' = IF r.ok THEN "loaded" ELSE "failed"
        /\ call' = [NoCall EXCEPT !.op = "try_from",
                                  !.result = IF r.ok THEN "Ok" ELSE "Err"]
  /\ UNCHANGED <<disk, disk0, fileSections, runVars, loginVars, samlVars, fetchVars>>

\* store.set_profile(name, creds)
SetProfile(name, creds) ==
  /\ phase = "loaded"
  /\ LET r == set_profile(store.credentials, name, creds)
     IN /\ store' = [store EXCEPT !.credentials = r.credentials]
        /\ call' = [op |-> "set_profile", name |-> name, creds |-> creds,
                    result |-> r.result]
  /\ UNCHANGED <<disk, disk0, fileSections, phase, runVars, loginVars, samlVars, fetchVars>>

\* store.save(): the store is consumed
Save ==
  /\ phase = "loaded"
  /\ disk' = [disk EXCEPT !.bytes = save(disk.bytes, store)]
  /\ phase' = "saved"
  /\ call' = [NoCall EXCEPT !.op = "save", !.result = "Ok"]
  /\ UNCHANGED <<disk0, fileSections, store, runVars, loginVars, samlVars, fetchVars>>

StoreNext ==
  \/ Load
  \/ \E name \in Names, creds \in StsCredentials : SetProfile(name, creds)
  \/ Save

SpecStore == StoreInit /\ [][StoreNext]_vars

(***************************************************************************)
(* Properties of the store                                                 *)
(***************************************************************************)
\* the step is a call of set_profile(name, _)
SetProfileStep(name) ==
  /\ phase = "loaded" /\ phase' = "loaded"
  /\ call'.op = "set_profile" /\ call'.name = name

IsIam(credentials, name) ==
  name \in DOMAIN credentials /\ credentials[name].kind = "Iam"

\* C1: set_profile(name, Sts credentials) on a name whose entry is Iam
\* returns an error and leaves the whole mapping as it was; and no step of
\* a loaded store changes or removes an Iam entry.
C1_IamEntryRefused ==
  [][\A n \in Names :
       IsIam(store.credentials, n) =>
         /\ SetProfileStep(n) =>
              call'.result = "Err" /\ store'.credentials = store.credentials
         /\ phase' \in {"loaded", "saved"} =>
              IsIam(store'.credentials, n) /\ store'.credentials[n] = store.credentials[n]
    ]_vars

C1_Witness ==
  /\ call.op = "set_profile" /\ call.result = "Err"
  /\ IsIam(store.credentials, call.name)
  /\ \E i \in 1..Len(fileSections) :
       fileSections[i].name = call.name /\ fileSections[i].creds = store.credentials[call.name]

\* C2: after save the file's content is exactly the serialization of the
\* mapping, whatever the file held before.
C2_SaveReplacesContent ==
  phase = "saved" => disk.bytes = Serialize(store.credentials)

\* C4: set_profile(name, Sts credentials) on a name that is vacant or whose
\* entry is Sts returns Ok, the entry of name is then Sts with exactly the
\* three new fields, and every entry under another name is as it was.
C4_StsEntryReplaced ==
  [][\A n \in Names :
       (SetProfileStep(n) /\ ~IsIam(store.credentials, n)) =>
         /\ call'.result = "Ok"
         /\ DOMAIN store'.credentials = DOMAIN store.credentials \cup {n}
         /\ store'.credentials[n].kind = "Sts"
         /\ store'.credentials[n].access_key_id = call'.creds.access_key_id
         /\ store'.credentials[n].secret_access_key = call'.creds.secret_access_key
         /\ store'.credentials[n].session_token = call'.creds.session_token
         /\ \A m \in DOMAIN store.credentials \ {n} :
              store'.credentials[m] = store.credentials[m]
    ]_vars

\* an Sts entry that came from the file now holds other values in all
\* three fields, beside an entry under another name
C4_Witness ==
  /\ call.op = "set_profile" /\ call.result = "Ok"
  /\ store.credentials[call.name] = call.creds
  /\ DOMAIN store.credentials # {call.name}
  /\ \E i \in 1..Len(fileSections) :
       /\ fileSections[i].name = call.name
       /\ fileSections[i].creds.kind = "Sts"
       /\ fileSections[i].creds.access_key_id # call.creds.access_key_id
       /\ fileSections[i].creds.secret_access_key # call.creds.secret_access_key
       /\ fileSections[i].creds.session_token # call.creds.session_token

\* the file's sections hold an Iam profile and an Sts profile, once each
IamAndStsFile ==
  /\ Len(fileSections) = 2
  /\ fileSections[1].name # fileSections[2].name
  /\ {fileSections[1].creds.kind, fileSections[2].creds.kind} = {"Iam", "Sts"}

\* C6: a file with an Iam profile and an Sts profile, loaded, the Sts
\* profile set to new values, saved: the file is one section per profile
\* in ascending order of name, the Iam section as it was loaded (two
\* lines), the Sts section with the new values, and nothing else.
C6_SaveStsScenario ==
  (/\ phase = "saved"
   /\ IamAndStsFile
   /\ DOMAIN store.credentials = {fileSections[1].name, fileSections[2].name}
   /\ \E i \in 1..2 : /\ fileSections[i].creds.kind = "Sts"
                      /\ store.credentials[fileSections[i].name] # fileSections[i].creds)
  => LET lo == IF StrLess(fileSections[1].name, fileSections[2].name) THEN 1 ELSE 2
         hi == 3 - lo
         written(i) ==
           IF fileSections[i].creds.kind = "Iam" THEN fileSections[i].creds
           ELSE store.credentials[fileSections[i].name]
     IN disk.bytes = WriteSection(fileSections[lo].name, written(lo), CRLF)
                     \o WriteSection(fileSections[hi].name, written(hi), CRLF)

\* the last section of the initial file that names n
LastSection(n) ==
  fileSections[CHOOSE i \in 1..Len(fileSections) :
                 /\ fileSections[i].name = n
                 /\ \A j \in (i + 1)..Len(fileSections) : fileSections[j].name # n]

\* C7: loading a file in which a name has more than one section gives one
\* entry for the name, with the values of its last section.
C7_LastSectionWins ==
  call.op = "try_from" =>
    /\ call.result = "Ok"
    /\ DOMAIN store.credentials = {fileSections[i].name : i \in 1..Len(fileSections)}
    /\ \A n \in DOMAIN store.credentials : store.credentials[n] = LastSection(n).creds

C7_Witness ==
  /\ call.op = "try_from" /\ call.result = "Ok"
  /\ \E i, j \in 1..Len(fileSections) :
       /\ i < j
       /\ fileSections[i].name = fileSections[j].name
       /\ fileSections[i].creds # fileSections[j].creds
       /\ store.credentials[fileSections[j].name] = fileSections[j].creds

(***************************************************************************)
(* main (main.rs 61-124): the configuration is read, the store is created  *)
(* from the credentials file, and for each matched organization a client   *)
(* logs in, the credentials of each matched profile are fetched, then set  *)
(* in the store; the store is saved after the last organization.  Every    *)
(* `?` ends main with the error.                                           *)
(***************************************************************************)
\* the files main may find: none, an empty one, and three with profiles
RunFileSections ==
  {<<>>,
   <<[name |-> <<"a">>, creds |-> Iam(<<"A">>, <<"S">>)]>>,
   <<[name |-> <<"a", "b">>, creds |-> Sts(<<"A">>, <<"S">>, <<"T">>)]>>,
   <<[name |-> <<"a">>, creds |-> Iam(<<"A">>, <<"S">>)],
     [name |-> <<"a", "b">>, creds |-> Sts(<<"A", "A">>, <<"S", "S">>, <<"T", "T">>)]>>}

AbsentFile == [exists |-> FALSE, bytes |-> <<>>]

\* the matched profiles of one organization: names, each at most once
ProfileLists ==
  {ps \in UNION {[1..k -> Names] : k \in 0..Cardinality(Names)} :
     \A i, j \in 1..Len(ps) : i # j => ps[i] # ps[j]}

\* config.organizations(pattern), each with organization.profiles(pattern)
OrgSeqs == UNION {[1..n -> ProfileLists] : n \in 0..MaxOrgs}

\* what the role assumption returns
RunCredentials == {c \in FileCredentials : c.kind = "Sts"}

\* the steps of fetch_credentials that end it with an error (main.rs 136-187)
FetchErrors ==
  {"app_links", "no_application", "saml_response", "no_role", "assume_role",
   "no_credentials"}

Event(op, org, name, result) == [op |-> op, org |-> org, name |-> name, result |-> result]

MapRemove(map, key) == [k \in DOMAIN map \ {key} |-> map[k]]

\* PathFile::create then OpenOptions read+write: an absent file is created
\* empty, an existing one is opened as it is
open_file_truncate(d) == [exists |-> TRUE, bytes |-> <<>>]

open_file(d) == [exists |-> TRUE, bytes |-> d.bytes]

\* the only organization is the last: the loop is left after it
LoopNextOnce(i, n) == "save"

\* main is left when the body of the loop is: nothing comes after it
LoopNextReturn(i, n) == "done"

\* `for organization in organizations`: on to the next one, or past the loop
LoopNext(i, n) == IF i < n THEN "client" ELSE "save"

RunInit ==
  /\ \E secs \in RunFileSections, eol \in {LF, CRLF}, there \in BOOLEAN :
       /\ fileSections = secs
       /\ disk = IF there THEN [exists |-> TRUE, bytes |-> Render(secs, eol)]
                 ELSE AbsentFile
       /\ ~there => secs = <<>> /\ eol = LF
  /\ disk0 = disk
  /\ store = ClosedStore
  /\ phase = "closed"
  /\ call = NoCall
  /\ pc = "config"
  /\ orgs \in OrgSeqs
  /\ orgIdx = 0
  /\ profIdx = 0
  /\ orgCredentials = EmptyMap
  /\ failure = "none"
  /\ log = <<>>
  /\ lock = "free"
  /\ LoginIdle
  /\ SamlIdle
  /\ FetchIdle

\* the error of the step is noted and main goes on
FailAndGoOn(step) == pc' = pc /\ failure' = step

\* main returns the error of the step
Fail(step) == pc' = "done" /\ failure' = step

\* Config::new()?
ConfigNew ==
  /\ pc = "config"
  /\ \/ pc' = "store" /\ failure' = failure
     \/ Fail("config")
  /\ UNCHANGED <<storeVars, orgs, orgIdx, profIdx, orgCredentials, log, lock, loginVars, samlVars, fetchVars>>

\* CredentialsStore::new()?: the path is found, the file created if absent,
\* opened and read
StoreNew ==
  /\ pc = "store"
  /\ \/ /\ Fail("store")
        /\ UNCHANGED <<disk, store, phase, call>>
     \/ LET opened == open_file(disk)
            r == try_from_file(opened.bytes)
        IN /\ disk' = opened
           /\ store' = r.store
           /\ phase' = IF r.ok THEN "loaded" ELSE "failed"
           /\ call' = [NoCall EXCEPT !.op = "try_from",
                                     !.result = IF r.ok THEN "Ok" ELSE "Err"]
           /\ IF r.ok THEN pc' = "organizations" /\ failure' = failure
              ELSE Fail("store")
  /\ UNCHANGED <<disk0, fileSections, orgs, orgIdx, profIdx, orgCredentials, log, lock, loginVars, samlVars, fetchVars>>

\* organizations.peek().is_none()
CheckOrganizations ==
  /\ pc = "organizations"
  /\ IF orgs = <<>>
     THEN Fail("no_organizations") /\ orgIdx' = orgIdx
     ELSE pc' = "client" /\ orgIdx' = 1 /\ failure' = failure
  /\ UNCHANGED <<storeVars, orgs, profIdx, orgCredentials, log, lock, loginVars, samlVars, fetchVars>>

\* OktaClient::new(...).await?
ClientNew ==
  /\ pc = "client"
  /\ \/ /\ log' = Append(log, Event("login", orgIdx, <<>>, "Ok"))
        /\ pc' = "profiles" /\ failure' = failure
     \/ /\ log' = Append(log, Event("login", orgIdx, <<>>, "Err"))
        /\ Fail("login")
  /\ UNCHANGED <<storeVars, orgs, orgIdx, profIdx, orgCredentials, lock, loginVars, samlVars, fetchVars>>

\* organization.profiles(pattern).collect(); an empty list: continue
CollectProfiles ==
  /\ pc = "profiles"
  /\ IF orgs[orgIdx] = <<>>
     THEN /\ pc' = LoopNext(orgIdx, Len(orgs))
          /\ orgIdx' = IF pc' = "client" THEN orgIdx + 1 ELSE orgIdx
          /\ profIdx' = profIdx
     ELSE /\ pc' = "fetch"
          /\ orgIdx' = orgIdx
          /\ profIdx' = 1
  /\ orgCredentials' = EmptyMap
  /\ UNCHANGED <<storeVars, orgs, failure, log, lock, loginVars, samlVars, fetchVars>>

\* fetch_credentials(&okta_client, &organization, &profile).await?, then
\* org_credentials.insert(profile.name, credentials)
FetchCredentials ==
  /\ pc = "fetch"
  /\ LET name == orgs[orgIdx][profIdx]
     IN \/ \E c \in RunCredentials :
             /\ log' = Append(log, Event("fetch", orgIdx, name, "Ok"))
             /\ orgCredentials' = MapInsert(orgCredentials, name, c)
             /\ IF profIdx < Len(orgs[orgIdx])
                THEN pc' = "fetch" /\ profIdx' = profIdx + 1
                ELSE pc' = "upsert" /\ profIdx' = profIdx
             /\ failure' = failure
        \/ \E e \in FetchErrors :
             /\ log' = Append(log, Event("fetch", orgIdx, name, e))
             /\ Fail(e)
             /\ UNCHANGED <<orgCredentials, profIdx>>
  /\ UNCHANGED <<storeVars, orgs, orgIdx, lock, loginVars, samlVars, fetchVars>>

\* a guard that is kept: the Mutex stays as it is
KeepGuard(l) == l

\* the MutexGuard is dropped: the Mutex is free again
DropGuard(l) == "free"

\* credentials_store.lock(): the Mutex is taken when it is free
MutexLock(l) == "held"

\* `for (name, creds) in org_credentials`: there is an entry left, and
\* credentials_store.lock().unwrap() takes the Mutex for it
LockStore ==
  /\ pc = "upsert"
  /\ lock = "free"
  /\ lock' = MutexLock(lock)
  /\ pc' = "locked"
  /\ UNCHANGED <<storeVars, orgs, orgIdx, profIdx, orgCredentials, failure, log, loginVars, samlVars, fetchVars>>

\* the HashMap yields its entries in any order; .set_profile(name, creds)?
\* on the locked store, the guard, a temporary of the statement, dropped
\* at its end, on the way of the error as well
Upsert ==
  /\ pc = "locked"
  /\ lock' = DropGuard(lock)
  /\ \E name \in DOMAIN orgCredentials :
       LET r == set_profile(store.credentials, name, orgCredentials[name])
           left == MapRemove(orgCredentials, name)
       IN /\ store' = [store EXCEPT !.credentials = r.credentials]
          /\ call' = [op |-> "set_profile", name |-> name,
                      creds |-> orgCredentials[name], result |-> r.result]
          /\ log' = Append(log, Event("set_profile", orgIdx, name, r.result))
          /\ orgCredentials' = left
          /\ IF r.result = "Err"
             THEN Fail("conflict") /\ orgIdx' = orgIdx
             ELSE /\ failure' = failure
                  /\ pc' = IF DOMAIN left # {} THEN "upsert"
                           ELSE LoopNext(orgIdx, Len(orgs))
                  /\ orgIdx' = IF pc' = "client" THEN orgIdx + 1 ELSE orgIdx
  /\ UNCHANGED <<disk, disk0, fileSections, phase, orgs, profIdx, loginVars, samlVars, fetchVars>>

\* let store = credentials_store.lock().unwrap()
LockForSave ==
  /\ pc = "save"
  /\ lock = "free"
  /\ lock' = MutexLock(lock)
  /\ pc' = "saving"
  /\ UNCHANGED <<storeVars, orgs, orgIdx, profIdx, orgCredentials, failure, log, loginVars, samlVars, fetchVars>>

\* store.save(), and main returns: the guard is dropped
RunSave ==
  /\ pc = "saving"
  /\ lock' = DropGuard(lock)
  /\ disk' = [disk EXCEPT !.bytes = save(disk.bytes, store)]
  /\ phase' = "saved"
  /\ call' = [NoCall EXCEPT !.op = "save", !.result = "Ok"]
  /\ log' = Append(log, Event("save", 0, <<>>, "Ok"))
  /\ pc' = "done"
  /\ UNCHANGED <<disk0, fileSections, store, orgs, orgIdx, profIdx, orgCredentials, failure, loginVars, samlVars, fetchVars>>

RunNext ==
  \/ ConfigNew
  \/ StoreNew
  \/ CheckOrganizations
  \/ ClientNew
  \/ CollectProfiles
  \/ FetchCredentials
  \/ LockStore
  \/ Upsert
  \/ LockForSave
  \/ RunSave

SpecRun == RunInit /\ [][RunNext]_vars

(***************************************************************************)
(* Properties of main                                                      *)
(***************************************************************************)
Saves == {i \in 1..Len(log) : log[i].op = "save"}

Failed == pc = "done" /\ failure # "none"

Succeeded == pc = "done" /\ failure = "none"

\* C3 as stated: a run in which a step failed never saved, and the file on
\* disk is exactly as it was before the run.
C3_FailureLeavesFile ==
  Failed => Saves = {} /\ disk = disk0

\* C3, amended: a run in which a step failed never saved, and the file
\* holds exactly the content it had before the run; a file that was not
\* there before the run is there, empty, once the store has been created
\* (every step after the creation of the store finds it so).
C3_FailureLeavesContent ==
  Failed =>
    /\ Saves = {}
    /\ disk.bytes = disk0.bytes
    /\ disk0.exists => disk.exists
    /\ failure \notin {"config", "store"} => disk.exists

\* a set_profile succeeded in memory on a file with content, and a later
\* step failed
C3_Witness ==
  /\ Failed
  /\ disk0.exists /\ disk0.bytes # <<>>
  /\ \E i \in 1..Len(log) : log[i].op = "set_profile" /\ log[i].result = "Ok"
  /\ store.credentials # from_read(disk0.bytes).credentials

\* C5: save is called at most once in a run and nothing is called after
\* it; a run in which no step failed called it exactly once, after a fetch
\* and a set_profile for every profile of every matched organization.
C5_SaveOnceAtEnd ==
  /\ Cardinality(Saves) <= 1
  /\ \A i \in Saves : i = Len(log)
  /\ Succeeded =>
       /\ Cardinality(Saves) = 1
       /\ \A o \in 1..Len(orgs) : \A k \in 1..Len(orgs[o]) :
            /\ \E i \in 1..Len(log) :
                 log[i] = Event("fetch", o, orgs[o][k], "Ok")
            /\ \E i \in 1..Len(log) :
                 log[i] = Event("set_profile", o, orgs[o][k], "Ok")

\* a run over two organizations or more, each with a profile, that saved
C5_Witness ==
  /\ Succeeded
  /\ Len(orgs) >= 2
  /\ \A o \in 1..Len(orgs) : orgs[o] # <<>>
  /\ Saves = {Len(log)}
  /\ log[Len(log) - 1].op = "set_profile" /\ log[Len(log) - 1].org = Len(orgs)

\* the orders in which a HashMap with the keys S may yield them
Orders(S) ==
  {p \in [1..Cardinality(S) -> S] : \A i, j \in 1..Cardinality(S) : i # j => p[i] # p[j]}

RECURSIVE ApplyUpserts(_, _, _)
\* `for (name, creds) in org_credentials { ...set_profile(name, creds)?; }`
\* (main.rs 114-119) with the entries yielded in `order`: the first refused
\* upsert ends the loop with its error
ApplyUpserts(credentials, entries, order) ==
  IF order = <<>> THEN [result |-> "Ok", credentials |-> credentials]
  ELSE LET r == set_profile(credentials, Head(order), entries[Head(order)])
       IN IF r.result = "Err" THEN r
          ELSE ApplyUpserts(r.credentials, entries, Tail(order))

\* the mapping a run leaves in the file when its upserts ended with r: the
\* mapping save writes, or, save not being reached, the mapping of the file
PersistedAfter(r) ==
  IF r.result = "Ok" THEN r.credentials ELSE from_read(disk.bytes).credentials

\* C11: the upserts of an organization, which the HashMap yields in any
\* order, give the same outcome (all applied, or one refused) and the same
\* persisted mapping in every order; and two upserts of one name whose
\* entry is not Iam leave the entry with the value of the second.
C11_OrderIndependent ==
  phase = "loaded" =>
    /\ \A p, q \in Orders(DOMAIN orgCredentials) :
         LET rp == ApplyUpserts(store.credentials, orgCredentials, p)
             rq == ApplyUpserts(store.credentials, orgCredentials, q)
         IN /\ rp.result = rq.result
            /\ PersistedAfter(rp) = PersistedAfter(rq)
            /\ rp.result = "Ok" =>
                 /\ DOMAIN rp.credentials = DOMAIN store.credentials \cup DOMAIN orgCredentials
                 /\ \A n \in DOMAIN orgCredentials :
                      rp.credentials[n] = FromCredentials(orgCredentials[n])
    /\ \A n \in Names, c1, c2 \in RunCredentials :
         ~IsIam(store.credentials, n) =>
           LET r1 == set_profile(store.credentials, n, c1)
               r2 == set_profile(r1.credentials, n, c2)
           IN /\ r1.result = "Ok" /\ r2.result = "Ok"
              /\ DOMAIN r2.credentials = DOMAIN store.credentials \cup {n}
              /\ r2.credentials[n] = FromCredentials(c2)
              /\ \A m \in DOMAIN store.credentials \ {n} :
                   r2.credentials[m] = store.credentials[m]

\* a run that saved after it set the two profiles of one organization in
\* descending order of name, and set a name of an earlier organization again
C11_Witness ==
  /\ Succeeded
  /\ \E i, j \in 1..Len(log) :
       /\ i < j
       /\ log[i].op = "set_profile" /\ log[j].op = "set_profile"
       /\ log[i].org = log[j].org
       /\ log[i].name = <<"a", "b">> /\ log[j].name = <<"a">>
  /\ \E i, j \in 1..Len(log) :
       /\ log[i].op = "set_profile" /\ log[j].op = "set_profile"
       /\ log[i].org < log[j].org
       /\ log[i].name = log[j].name

\* the fetch events of organization o, in the order they were made
FetchesOf(o) ==
  LET isFetch(e) == e.op = "fetch" /\ e.org = o
  IN SelectSeq(log, isFetch)

\* the events of work on a profile or an organization
WorkEvents == {i \in 1..Len(log) : log[i].op \in {"login", "fetch", "set_profile"}}

\* C19: the profiles of an organization are fetched in the order of the
\* list collected from the configuration; the organizations are worked on
\* one at a time, in order, each with its login, then its fetches, then
\* its upserts; and the first step that fails ends the run: its event is
\* the last one, no login, fetch or upsert follows it.
C19_SequentialFailFast ==
  /\ [](/\ \A o \in 1..Len(orgs) :
             /\ Len(FetchesOf(o)) <= Len(orgs[o])
             /\ \A k \in 1..Len(FetchesOf(o)) : FetchesOf(o)[k].name = orgs[o][k]
        /\ \A i, j \in WorkEvents :
             i < j =>
               /\ log[i].org <= log[j].org
               /\ log[i].org = log[j].org =>
                    /\ log[j].op # "login"
                    /\ log[i].op = "set_profile" => log[j].op = "set_profile"
        /\ \A i \in 1..Len(log) :
             log[i].result # "Ok" => i = Len(log) /\ Failed
        /\ failure # "none" => pc = "done")
  /\ [][pc # "done"]_vars

\* the second profile of the first of two organizations failed in its
\* fetch, the profiles being listed in descending order of name
C19_Witness ==
  /\ Failed
  /\ Len(orgs) = 2 /\ orgs[1] = <<<<"a", "b">>, <<"a">>>> /\ orgs[2] # <<>>
  /\ Len(log) = 3
  /\ log[2] = Event("fetch", 1, <<"a", "b">>, "Ok")
  /\ log[3].op = "fetch" /\ log[3].name = <<"a">> /\ log[3].result = "no_role"

\* every profile of every matched organization was fetched and set
AllWorkDone ==
  /\ orgCredentials = EmptyMap
  /\ \A o \in 1..Len(orgs) : \A k \in 1..Len(orgs[o]) :
       /\ \E i \in 1..Len(log) : log[i] = Event("fetch", o, orgs[o][k], "Ok")
       /\ \E i \in 1..Len(log) : log[i] = Event("set_profile", o, orgs[o][k], "Ok")

\* C20: the Mutex is held exactly while a set_profile call or the final
\* save is under way; the mapping of the created store changes only in a
\* step that holds the Mutex; the Mutex taken is free again after the one
\* call, so every login and fetch runs with the Mutex free and no two
\* upserts overlap; and the content of the file changes only in the save
\* step, which comes when every profile has been fetched and set and after
\* which nothing runs (a file that is absent is created, empty, when the
\* store is created, before any login, fetch or upsert).
C20_LockAndSingleWrite ==
  /\ [](lock = "held" <=> pc \in {"locked", "saving"})
  /\ [][/\ (phase = "loaded" /\ store'.credentials # store.credentials) =>
              lock = "held" /\ pc = "locked" /\ call'.op = "set_profile"
        /\ lock = "held" => lock' = "free"
        /\ (log' # log /\ log'[Len(log')].op \in {"login", "fetch"}) =>
              lock = "free" /\ lock' = "free"
        /\ (log' # log /\ log'[Len(log')].op = "set_profile") =>
              lock = "held" /\ lock' = "free"
        /\ (disk'.bytes # disk.bytes \/ (log' # log /\ log'[Len(log')].op = "save")) =>
              /\ pc = "saving" /\ pc' = "done"
              /\ lock = "held"
              /\ AllWorkDone
              /\ store' = store
        /\ (disk' # disk /\ disk'.bytes = disk.bytes) =>
              pc = "store" /\ log = <<>> /\ ~disk.exists /\ disk'.bytes = <<>>
       ]_vars

\* the Mutex is held for an upsert of the second organization, after an
\* upsert of the first and the fetch that followed it
C20_Witness ==
  /\ pc = "locked" /\ lock = "held"
  /\ orgIdx = 2
  /\ \E i, j \in 1..Len(log) :
       /\ i < j
       /\ log[i].op = "set_profile" /\ log[i].org = 1
       /\ log[j].op = "fetch" /\ log[j].org = 2
  /\ DOMAIN orgCredentials # {}
  /\ disk.bytes = disk0.bytes

\* organization o has no profile that matches the pattern
Skipped(o) == orgs[o] = <<>>

\* C21: for an organization none of whose profiles matches, nothing is
\* fetched and nothing is set; after its client is created the run goes on
\* with the client of the next organization or, after the last one, with
\* the save, so a run in which no step failed saved, whatever organizations
\* were skipped; and with no organization matched the run ends with the
\* "No organizations found" error at most, without any login, fetch,
\* upsert or save and with the file's content as it was.
C21_SkipsEmptyOrganization ==
  /\ \A i \in 1..Len(log) :
       (log[i].op \in {"fetch", "set_profile"}) => ~Skipped(log[i].org)
  /\ \A i \in 1..Len(log) :
       (log[i] = Event("login", log[i].org, <<>>, "Ok") /\ Skipped(log[i].org)) =>
         IF i = Len(log)
         THEN failure = "none" /\ pc \in {"profiles", "client", "save", "saving"}
         ELSE log[i + 1].op = IF log[i].org < Len(orgs) THEN "login" ELSE "save"
  /\ \A i \in 1..(Len(log) - 1) :
       (log[i].op = "login" /\ log[i + 1].op = "login") =>
         log[i + 1].org = log[i].org + 1
  /\ failure \in {"none", "config", "store", "no_organizations", "login", "conflict"}
                   \cup FetchErrors
  /\ Succeeded => Saves = {Len(log)} /\ orgs # <<>>
  /\ orgs = <<>> =>
       /\ log = <<>>
       /\ disk.bytes = disk0.bytes
       /\ pc \in {"config", "store", "organizations", "done"}
       /\ pc = "done" => failure \in {"config", "store", "no_organizations"}
  /\ failure = "no_organizations" <=> (orgs = <<>> /\ pc = "done" /\ phase = "loaded")

\* a run that saved after it skipped its first organization and set a
\* profile of the second
C21_Witness ==
  /\ Succeeded
  /\ Len(orgs) = 2 /\ Skipped(1) /\ ~Skipped(2)
  /\ log[1] = Event("login", 1, <<>>, "Ok")
  /\ log[2] = Event("login", 2, <<>>, "Ok")
  /\ \E i \in 1..Len(log) : log[i].op = "set_profile" /\ log[i].org = 2
  /\ Saves = {Len(log)}
  /\ disk.bytes # disk0.bytes

(***************************************************************************)
(* Client::get_session_token (auth.rs 107-175)                             *)
(***************************************************************************)
MaxFactors == 3

\* LoginState (auth.rs 79-92)
LoginStates ==
  {"Unauthenticated", "PasswordWarn", "PasswordExpired", "Recovery",
   "RecoveryChallenge", "PasswordReset", "LockedOut", "MfaEnroll",
   "MfaEnrollActivate", "MfaRequired", "MfaChallenge", "Success"}

StateTokens == {"st1", "st2"}

SessionTokenValues == {"se1", "se2"}

PassCodes == {"123456", "654321"}

\* LoginResponse (auth.rs 57-67): `factors` is the length of
\* embedded.factors, the factors being 1..factors
LoginResponses ==
  {r \in [status : LoginStates,
          state_token : StateTokens \cup {None},
          session_token : SessionTokenValues \cup {None},
          embedded : BOOLEAN,
          factors : 0..MaxFactors] : ~r.embedded => r.factors = 0}

\* what get_session_token reads of the second verification's response
VerifyResponses ==
  {r \in LoginResponses : ~r.embedded /\ r.state_token = None}

Ok(value) == [kind |-> "Ok", value |-> value]

Err(message) == [kind |-> "Err", value |-> message]

\* a panic of unwrap(): the call does not return
Panic(what) == [kind |-> "Panic", value |-> what]

Step(ev, f, st, code) == [ev |-> ev, factor |-> f, state_token |-> st, pass_code |-> code]

LoginInit ==
  /\ lpc = "login"
  /\ response = NoResponse
  /\ factor = 0
  /\ factor_prompt_response = NoResponse
  /\ mfa_code = None
  /\ factor_provided_response = NoResponse
  /\ outcome = NoOutcome
  /\ trace = <<>>
  /\ StoreIdle
  /\ RunIdle
  /\ SamlIdle
  /\ FetchIdle

Return(result) == lpc' = "done" /\ outcome' = result

\* LoginState::Success => Ok(response.session_token.unwrap()), with the
\* state token taken for the session token
OnSuccessStateToken(r) ==
  IF r.state_token = None THEN Panic("unwrap") ELSE Ok(r.state_token)

\* LoginState::Success => Ok(response.session_token.unwrap())
OnSuccess(r) ==
  IF r.session_token = None THEN Panic("unwrap") ELSE Ok(r.session_token)

\* a match that sends a single factor to the menu as well
FactorChoiceAlwaysMenu(n) ==
  IF n = 0 THEN "none" ELSE "menu"

\* match factors.len() { 0 => bail!, 1 => &factors[0], _ => menu }
FactorChoice(n) ==
  IF n = 0 THEN "none" ELSE IF n = 1 THEN "only" ELSE "menu"

\* a match with the MfaChallenge status in the arm of MfaRequired
MatchArmWithChallenge(status) ==
  IF status = "Success" THEN "Success"
  ELSE IF status \in {"MfaRequired", "MfaChallenge"} THEN "MfaRequired"
  ELSE "_"

\* match response.status { Success => .., MfaRequired => .., _ => .. }
MatchArm(status) ==
  IF status = "Success" THEN "Success"
  ELSE IF status = "MfaRequired" THEN "MfaRequired"
  ELSE "_"

\* let response = self.login(req)?
Login ==
  /\ lpc = "login"
  /\ trace' = Append(trace, Step("login", 0, None, None))
  /\ \/ /\ Return(Err("login"))
        /\ UNCHANGED response
     \/ /\ \E r \in LoginResponses : response' = r
        /\ lpc' = "match"
        /\ outcome' = outcome
  /\ UNCHANGED <<factor, factor_prompt_response, mfa_code, factor_provided_response,
                 storeVars, runVars, samlVars, fetchVars>>

\* LoginState::Success
MatchSuccess ==
  /\ lpc = "match"
  /\ MatchArm(response.status) = "Success"
  /\ Return(OnSuccess(response))
  /\ UNCHANGED <<response, factor, factor_prompt_response, mfa_code, trace,
                 factor_provided_response, storeVars, runVars, samlVars, fetchVars>>

\* LoginState::MfaRequired: response.embedded.unwrap().factors and the match
\* on their number
MatchMfaRequired ==
  /\ lpc = "match"
  /\ MatchArm(response.status) = "MfaRequired"
  /\ IF ~response.embedded
     THEN Return(Panic("unwrap")) /\ factor' = factor
     ELSE LET choice == FactorChoice(response.factors)
          IN IF choice = "none"
             THEN Return(Err("MFA required, and no available factors")) /\ factor' = factor
             ELSE IF choice = "only"
             THEN lpc' = "state_token" /\ factor' = 1 /\ outcome' = outcome
             ELSE lpc' = "menu" /\ factor' = factor /\ outcome' = outcome
  /\ UNCHANGED <<response, factor_prompt_response, mfa_code, trace,
                 factor_provided_response, storeVars, runVars, samlVars, fetchVars>>

\* _ => bail!("Non MFA")
MatchOther ==
  /\ lpc = "match"
  /\ MatchArm(response.status) = "_"
  /\ Return(Err("Non MFA"))
  /\ UNCHANGED <<response, factor, factor_prompt_response, mfa_code, trace,
                 factor_provided_response, storeVars, runVars, samlVars, fetchVars>>

\* &factors[menu.interact()?]
SelectFactor ==
  /\ lpc = "menu"
  /\ \/ /\ trace' = Append(trace, Step("select", 0, None, None))
        /\ Return(Err("interact"))
        /\ factor' = factor
     \/ \E i \in 1..response.factors :
          /\ trace' = Append(trace, Step("select", i, None, None))
          /\ factor' = i
          /\ lpc' = "state_token"
          /\ outcome' = outcome
  /\ UNCHANGED <<response, factor_prompt_response, mfa_code, factor_provided_response,
                 storeVars, runVars, samlVars, fetchVars>>

\* a verification request that never carries a passcode
verify_no_pass_code(f, st, code) == Step("verify", f, st, None)

\* self.verify(&factor, &FactorVerificationRequest::Sms { state_token,
\* pass_code }): the call as the endpoint sees it
verify(f, st, code) == Step("verify", f, st, code)

\* response.state_token.ok_or_else(..)?, then self.verify(&factor, Sms {
\* state_token, pass_code: None })?
PrimeFactor ==
  /\ lpc = "state_token"
  /\ IF response.state_token = None
     THEN /\ Return(Err("No state token found in response"))
          /\ UNCHANGED <<trace, factor_prompt_response>>
     ELSE /\ trace' = Append(trace, verify(factor, response.state_token, None))
          /\ \/ /\ Return(Err("verify"))
                /\ UNCHANGED factor_prompt_response
             \/ /\ \E st \in StateTokens \cup {None} :
                     factor_prompt_response' = [NoResponse EXCEPT !.status = "MfaChallenge",
                                                                  !.state_token = st]
                /\ lpc' = "primed"
                /\ outcome' = outcome
  /\ UNCHANGED <<response, factor, mfa_code, factor_provided_response,
                 storeVars, runVars, samlVars, fetchVars>>

\* factor_prompt_response.state_token.ok_or_else(..)?, then
\* Input::new("MFA response").interact()?
PromptPasscode ==
  /\ lpc = "primed"
  /\ IF factor_prompt_response.state_token = None
     THEN /\ Return(Err("No state token found in factor prompt response"))
          /\ UNCHANGED <<trace, mfa_code>>
     ELSE \/ /\ trace' = Append(trace, Step("input", 0, None, None))
             /\ Return(Err("interact"))
             /\ UNCHANGED mfa_code
          \/ \E code \in PassCodes :
               /\ trace' = Append(trace, Step("input", 0, None, code))
               /\ mfa_code' = code
               /\ lpc' = "verify"
               /\ outcome' = outcome
  /\ UNCHANGED <<response, factor, factor_prompt_response, factor_provided_response,
                 storeVars, runVars, samlVars, fetchVars>>

\* self.verify(&factor, Sms { state_token, pass_code: Some(mfa_code) })?,
\* then Ok(factor_provided_response.session_token.unwrap())
VerifyPasscode ==
  /\ lpc = "verify"
  /\ trace' = Append(trace, verify(factor, factor_prompt_response.state_token, mfa_code))
  /\ \/ /\ Return(Err("verify"))
        /\ UNCHANGED factor_provided_response
     \/ \E r \in VerifyResponses :
          /\ factor_provided_response' = r
          /\ Return(IF r.session_token = None THEN Panic("unwrap") ELSE Ok(r.session_token))
  /\ UNCHANGED <<response, factor, factor_prompt_response, mfa_code,
                 storeVars, runVars, samlVars, fetchVars>>

LoginNext ==
  \/ Login
  \/ MatchSuccess
  \/ MatchMfaRequired
  \/ MatchOther
  \/ SelectFactor
  \/ PrimeFactor
  \/ PromptPasscode
  \/ VerifyPasscode

SpecLogin == LoginInit /\ [][LoginNext]_vars

\* every call to the endpoints and every prompt returns, and the code
\* between them runs: the invocation goes on while it has a step to take
SpecLoginFair == LoginInit /\ [][LoginNext]_vars /\ WF_vars(LoginNext)

(***************************************************************************)
(* Properties of get_session_token                                         *)
(***************************************************************************)
Steps(ev) == {i \in 1..Len(trace) : trace[i].ev = ev}

\* C8: when the authentication response is Success with a session token,
\* the call returns exactly that token, and it made no verification call
\* and asked the operator nothing.
C8_SuccessReturnsToken ==
  (response.status = "Success" /\ response.session_token # None) =>
    /\ lpc \in {"match", "done"}
    /\ trace = <<Step("login", 0, None, None)>>
    /\ lpc = "done" => outcome = Ok(response.session_token)

C8_Witness ==
  /\ lpc = "done"
  /\ response.status = "Success"
  /\ response.session_token \in SessionTokenValues
  /\ response.state_token \in StateTokens
  /\ outcome = Ok(response.session_token)

C15_MfaOrder ==
  (response.status = "MfaRequired" /\ response.embedded /\ response.factors > 0) =>
    LET k == IF response.factors > 1 THEN 1 ELSE 0
    IN /\ Len(trace) <= 4 + k
       /\ trace[1] = Step("login", 0, None, None)
       /\ (k = 1 /\ Len(trace) >= 2) => trace[2].ev = "select"
       /\ Len(trace) >= 2 + k =>
            /\ response.state_token # None
            /\ trace[2 + k] = Step("verify", factor, response.state_token, None)
       /\ Len(trace) >= 3 + k =>
            /\ factor_prompt_response.state_token # None
            /\ trace[3 + k].ev = "input"
       /\ Len(trace) >= 4 + k =>
            /\ mfa_code # None
            /\ trace[3 + k].pass_code = mfa_code
            /\ trace[4 + k] =
                 Step("verify", factor, factor_prompt_response.state_token, mfa_code)
       /\ (response.state_token = None /\ lpc \notin {"match", "menu", "state_token"}) =>
            /\ lpc = "done"
            /\ outcome = IF factor = 0 THEN Err("interact")
                         ELSE Err("No state token found in response")
            /\ Steps("verify") = {} /\ Steps("input") = {}
       /\ (/\ factor_prompt_response # NoResponse
           /\ factor_prompt_response.state_token = None
           /\ lpc # "primed") =>
            /\ lpc = "done"
            /\ outcome = Err("No state token found in factor prompt response")
            /\ Steps("input") = {} /\ Cardinality(Steps("verify")) = 1

\* the full MFA branch after a choice among several factors, the priming
\* response holding another state token than the authentication response
C15_Witness ==
  /\ lpc = "done" /\ outcome.kind = "Ok"
  /\ response.status = "MfaRequired" /\ response.factors > 1
  /\ response.state_token # None
  /\ factor_prompt_response.state_token \notin {None, response.state_token}
  /\ Len(trace) = 5
  /\ trace[3].state_token = response.state_token /\ trace[3].pass_code = None
  /\ trace[5].state_token = factor_prompt_response.state_token
  /\ trace[5].pass_code = mfa_code /\ mfa_code \in PassCodes

\* C16: when the authentication response has a status other than Success
\* and MfaRequired, the call ends with the "Non MFA" error and no token,
\* having made the authentication request alone: no verification call and
\* no prompt.
C16_OtherStatusFatal ==
  (response.status \in LoginStates \ {"Success", "MfaRequired"}) =>
    /\ lpc \in {"match", "done"}
    /\ trace = <<Step("login", 0, None, None)>>
    /\ factor = 0 /\ mfa_code = None
    /\ factor_prompt_response = NoResponse /\ factor_provided_response = NoResponse
    /\ lpc = "done" => outcome = Err("Non MFA")

\* an MfaChallenge response that holds tokens and factors ended in the error
C16_Witness ==
  /\ lpc = "done"
  /\ response.status = "MfaChallenge"
  /\ response.session_token # None /\ response.state_token # None
  /\ response.embedded /\ response.factors > 0
  /\ outcome = Err("Non MFA")

\* C13: once the verification call with the passcode has returned, the
\* call returns a session token only when that response's status is
\* Success, and an error for every other status.
C13_TokenOnlyOnSuccess ==
  factor_provided_response # NoResponse =>
    /\ lpc = "done"
    /\ outcome.kind = "Ok" => factor_provided_response.status = "Success"
    /\ factor_provided_response.status # "Success" => outcome.kind = "Err"

\* C14: when the authentication response is Success and holds no session
\* token, the call returns an error.
C14_MissingTokenIsError ==
  (lpc = "done" /\ response.status = "Success" /\ response.session_token = None) =>
    outcome.kind = "Err"

\* the position of a step in the text of get_session_token
PhaseRank(l) ==
  CASE l = "login" -> 1
    [] l = "match" -> 2
    [] l = "menu" -> 3
    [] l = "state_token" -> 4
    [] l = "primed" -> 5
    [] l = "verify" -> 6
    [] l = "done" -> 7

\* C17: one invocation makes at most one authentication request and two
\* verification calls and prompts at most once for a factor and once for a
\* passcode; each step takes it to a later phase and none is taken after it
\* ended; and, its calls and prompts returning, it ends with a token
\* (Success) or with an error (Failed).
C17_StrictlyLinear ==
  /\ [](/\ Cardinality(Steps("login")) <= 1
        /\ Cardinality(Steps("verify")) <= 2
        /\ Cardinality(Steps("select")) <= 1
        /\ Cardinality(Steps("input")) <= 1
        /\ (outcome # NoOutcome) <=> (lpc = "done"))
  /\ [][lpc # "done" /\ PhaseRank(lpc') > PhaseRank(lpc)]_vars
  /\ [](lpc = "done" => outcome.kind \in {"Ok", "Err"})
  /\ <>(lpc = "done")

(***************************************************************************)
(* impl FromStr for Response (saml/mod.rs 17-48).  The string it is given  *)
(* is described by what decoding it yields: whether the base64 and the     *)
(* UTF-8 are valid, whether the XML parses, and the texts of the           *)
(* AttributeValue nodes the role query selects.                            *)
(***************************************************************************)
MaxNodes == 3

\* texts of role AttributeValue nodes: three well-formed identifiers, one
\* with no comma, one with an empty role, one with three parts
NodeTexts ==
  {<<"p", ",", "r">>, <<"p", ",", "s">>, <<"q", ",", "r">>,
   <<"p">>, <<"p", ",">>, <<"p", ",", "r", ",", "s">>}

SamlInputs ==
  {[encoding |-> e, xml |-> "ok", nodes |-> <<>>] : e \in {"base64", "utf8"}}
  \cup {[encoding |-> "ok", xml |-> "malformed", nodes |-> <<>>]}
  \cup {[encoding |-> "ok", xml |-> "ok", nodes |-> ns] :
          ns \in UNION {[1..n -> NodeTexts] : n \in 0..MaxNodes}}

RECURSIVE SplitComma(_)
\* text.split(','): the parts between the commas
SplitComma(text) ==
  LET k == IndexOf(text, ",", 1)
  IN IF k = 0 THEN <<text>>
     ELSE <<SubSeq(text, 1, k - 1)>> \o SplitComma(SubSeq(text, k + 1, Len(text)))

BadRole == [provider_arn |-> <<>>, role_arn |-> <<>>]

\* Role::from_str: `provider-arn,role-arn`, both parts present
ParseRole(text) ==
  LET parts == SplitComma(text)
  IN IF Len(parts) = 2 /\ parts[1] # <<>> /\ parts[2] # <<>>
     THEN [provider_arn |-> parts[1], role_arn |-> parts[2]]
     ELSE BadRole

WellFormed(text) == ParseRole(text) # BadRole

SamlOk(raw, roles) == [kind |-> "Ok", raw |-> raw, roles |-> roles, error |-> NoError]

SamlErr(what, text) ==
  [kind |-> "Err", raw |-> NoInput, roles |-> {}, error |-> [what |-> what, text |-> text]]

SamlPanic(what) ==
  [kind |-> "Panic", raw |-> NoInput, roles |-> {}, error |-> [what |-> what, text |-> <<>>]]

\* a collection that drops the nodes that do not parse (filter_map)
CollectRolesSkipMalformed(s) ==
  {SamlOk(s, {ParseRole(s.nodes[i]) : i \in {j \in 1..Len(s.nodes) : WellFormed(s.nodes[j])}})}

\* a collection that takes a nodeset with no node for an error
CollectRolesNonEmpty(s) ==
  LET bad == {i \in 1..Len(s.nodes) : ~WellFormed(s.nodes[i])}
  IN IF s.nodes = <<>> \/ bad # {}
     THEN {SamlErr("role", <<>>)}
     ELSE {SamlOk(s, {ParseRole(s.nodes[i]) : i \in 1..Len(s.nodes)})}

\* ns.iter().map(|a| a.string_value().parse()).collect::<Result<HashSet<Role>,
\* Error>>()?: the set of the roles, or the error of the first node, in the
\* nodeset's iteration order, that does not parse
CollectRoles(s) ==
  LET bad == {i \in 1..Len(s.nodes) : ~WellFormed(s.nodes[i])}
  IN IF bad # {}
     THEN {SamlErr("role", s.nodes[i]) : i \in bad}
     ELSE {SamlOk(s, {ParseRole(s.nodes[i]) : i \in 1..Len(s.nodes)})}

\* from_str: every result it may return for s
from_str(s) ==
  IF s.encoding # "ok" THEN {SamlErr(s.encoding, <<>>)}
  ELSE IF s.xml # "ok" THEN {SamlPanic("Failed parsing xml")}
  ELSE CollectRoles(s)

SamlInit ==
  /\ samlInput \in SamlInputs
  /\ samlResult = NoSamlResult
  /\ StoreIdle
  /\ RunIdle
  /\ LoginIdle
  /\ FetchIdle

\* s.parse::<Response>()
FromStr ==
  /\ samlResult = NoSamlResult
  /\ samlResult' \in from_str(samlInput)
  /\ UNCHANGED <<samlInput, storeVars, runVars, loginVars, fetchVars>>

SamlNext == FromStr

SpecSaml == SamlInit /\ [][SamlNext]_vars

(***************************************************************************)
(* Properties of Response::from_str                                        *)
(***************************************************************************)
Parsed == samlResult.kind # "none" /\ samlInput.encoding = "ok" /\ samlInput.xml = "ok"

AllWellFormed == \A i \in 1..Len(samlInput.nodes) : WellFormed(samlInput.nodes[i])

\* C10 as stated: N role nodes, all well-formed, give a role set of exactly
\* N identifiers; one malformed text fails the parse with no Response.
C10_RolesCountNodes ==
  Parsed =>
    IF AllWellFormed
    THEN samlResult.kind = "Ok" /\ Cardinality(samlResult.roles) = Len(samlInput.nodes)
    ELSE samlResult.kind = "Err" /\ samlResult.roles = {} /\ samlResult.raw = NoInput

\* C10, amended: N role nodes, all well-formed, give the set of their
\* identifiers, one for each distinct text (N when the texts differ
\* pairwise); one malformed text fails the parse with the error of a
\* malformed node and no Response.
C10_RolesOfNodes ==
  Parsed =>
    IF AllWellFormed
    THEN /\ samlResult.kind = "Ok"
         /\ \A i \in 1..Len(samlInput.nodes) :
              \E r \in samlResult.roles :
                <<r.provider_arn, r.role_arn>> =
                  <<SubSeq(samlInput.nodes[i], 1, 1), SubSeq(samlInput.nodes[i], 3, 3)>>
         /\ Cardinality(samlResult.roles)
              = Cardinality({samlInput.nodes[i] : i \in 1..Len(samlInput.nodes)})
    ELSE /\ samlResult.kind = "Err"
         /\ samlResult.roles = {} /\ samlResult.raw = NoInput
         /\ \E i \in 1..Len(samlInput.nodes) :
              ~WellFormed(samlInput.nodes[i]) /\ samlResult.error.text = samlInput.nodes[i]

\* three well-formed nodes, two of them with the same text: two roles
C10_Witness ==
  /\ Parsed /\ AllWellFormed
  /\ Len(samlInput.nodes) = 3
  /\ samlResult.kind = "Ok"
  /\ Cardinality(samlResult.roles) = 2

(***************************************************************************)
(* fetch_credentials (main.rs 126-192) for one profile, and what main does *)
(* with the credentials it returns (main.rs 110-119).  The client's        *)
(* get_saml_response fetches the encoded assertion of the link and parses  *)
(* it with Response::from_str.                                             *)
(***************************************************************************)
MaxLinks == 2

\* AppLink { app_name, label, link_url }
AppLinkValues ==
  {[app_name |-> "amazon_aws", label |-> "app1", link_url |-> "u1"],
   [app_name |-> "amazon_aws", label |-> "app1", link_url |-> "u2"],
   [app_name |-> "amazon_aws", label |-> "app2", link_url |-> "u3"],
   [app_name |-> "other", label |-> "app1", link_url |-> "u4"]}

\* what client.app_links(None) may list
LinkLists == UNION {[1..n -> AppLinkValues] : n \in 0..MaxLinks}

\* Profile { name, application_name, role, duration_seconds }
FetchProfiles ==
  {[name |-> n, application_name |-> a[1], role |-> r, duration_seconds |-> a[2]] :
     n \in Names, r \in {<<"r">>, <<"s">>}, a \in {<<"app1", 900>>, <<"app2", 3600>>}}

\* the text of a role node: `provider-arn,role-arn`, the role-arn `x/name`
RoleNode(provider, name) == <<provider, ",", "x", "/", name>>

\* the assertions the client may fetch: one that is no base64, one whose XML
\* is malformed, and documents with no role node, one, two of different
\* role names, two of one role name under two providers, one whose role-arn
\* has no name part, one whose text is no role
FetchBodies ==
  {[encoding |-> "base64", xml |-> "ok", nodes |-> <<>>],
   [encoding |-> "ok", xml |-> "malformed", nodes |-> <<>>]}
  \cup {[encoding |-> "ok", xml |-> "ok", nodes |-> ns] :
          ns \in {<<>>,
                  <<RoleNode("p", "r")>>,
                  <<RoleNode("p", "r"), RoleNode("p", "s")>>,
                  <<RoleNode("p", "r"), RoleNode("q", "r")>>,
                  <<<<"p", ",", "r">>>>,
                  <<<<"p">>>>}}

RECURSIVE SplitSlash(_)
\* role_arn.split('/'): the parts between the slashes
SplitSlash(text) ==
  LET k == IndexOf(text, "/", 1)
  IN IF k = 0 THEN <<text>>
     ELSE <<SubSeq(text, 1, k - 1)>> \o SplitSlash(SubSeq(text, k + 1, Len(text)))

\* Role::role_name: the part of the role-arn after its slash, or an error
role_name(r) ==
  LET parts == SplitSlash(r.role_arn)
  IN IF Len(parts) = 2 THEN [ok |-> TRUE, name |-> parts[2]]
     ELSE [ok |-> FALSE, name |-> <<>>]

\* |r| r.role_name().map(|r| r == profile.role).unwrap_or(false)
RoleMatches(r, p) == role_name(r).ok /\ role_name(r).name = p.role

\* a predicate that looks at the label alone
LabelMatches(l, p) == l.label = p.application_name

\* |app_link| app_link.app_name == "amazon_aws" && app_link.label ==
\* profile.application_name
LinkMatches(l, p) == l.app_name = "amazon_aws" /\ l.label = p.application_name

\* .into_iter().find(..): the first link of the list that matches
FindLink(ls, p) ==
  LET hits == {i \in 1..Len(ls) : LinkMatches(ls[i], p)}
  IN IF hits = {} THEN NoLink
     ELSE ls[CHOOSE i \in hits : \A j \in hits : i <= j]

FetchOk(c) == [NoFetch EXCEPT !.kind = "Ok", !.credentials = c]

\* format_err!: the step that failed, and the profile name and the role the
\* message holds
FetchErr(step, name, r) ==
  [NoFetch EXCEPT !.kind = "Err", !.error = [step |-> step, name |-> name, role |-> r]]

FetchPanic(what) ==
  [NoFetch EXCEPT !.kind = "Panic", !.error = [step |-> what, name |-> <<>>, role |-> <<>>]]

FetchCall(op, url, r, raw, duration) ==
  [op |-> op, link_url |-> url, role |-> r, raw |-> raw, duration_seconds |-> duration]

\* main has created the store from a file and is at a profile
FetchInit ==
  /\ \E secs \in RunFileSections :
       /\ fileSections = secs
       /\ disk = [exists |-> TRUE, bytes |-> Render(secs, CRLF)]
       /\ store = try_from_file(Render(secs, CRLF)).store
  /\ disk0 = disk
  /\ phase = "loaded"
  /\ call = NoCall
  /\ RunIdle
  /\ LoginIdle
  /\ SamlIdle
  /\ fpc = "app_links"
  /\ profile \in FetchProfiles
  /\ links = <<>>
  /\ app_link = NoLink
  /\ role = NoRole
  /\ fetched = NoFetch
  /\ calls = <<>>

FetchReturn(r) == fpc' = "done" /\ fetched' = r

\* client.app_links(None).await?.into_iter().find(..).ok_or_else(..)?
AppLinks ==
  /\ fpc = "app_links"
  /\ calls' = Append(calls, FetchCall("app_links", "", NoRole, NoInput, 0))
  /\ \/ /\ FetchReturn(FetchErr("app_links", <<>>, <<>>))
        /\ UNCHANGED <<links, app_link>>
     \/ \E ls \in LinkLists :
          /\ links' = ls
          /\ app_link' = FindLink(ls, profile)
          /\ IF FindLink(ls, profile) = NoLink
             THEN FetchReturn(FetchErr("no_application", profile.name, <<>>))
             ELSE fpc' = "saml" /\ fetched' = fetched
  /\ UNCHANGED <<profile, role, storeVars, runVars, loginVars, samlVars>>

\* client.get_saml_response(app_link.link_url).await.map_err(..)?, then
\* roles.into_iter().find(..).ok_or_else(..)?: the HashSet yields its roles
\* in any order, so any role that matches may be the one found
GetSamlResponse ==
  /\ fpc = "saml"
  /\ calls' = Append(calls, FetchCall("get_saml_response", app_link.link_url, NoRole, NoInput, 0))
  /\ \/ /\ FetchReturn(FetchErr("saml_response", profile.name, <<>>))
        /\ UNCHANGED <<samlInput, samlResult, role>>
     \/ \E body \in FetchBodies : \E r \in from_str(body) :
          /\ samlInput' = body
          /\ samlResult' = r
          /\ IF r.kind = "Panic"
             THEN FetchReturn(FetchPanic(r.error.what)) /\ role' = role
             ELSE IF r.kind = "Err"
             THEN FetchReturn(FetchErr("saml_response", profile.name, <<>>)) /\ role' = role
             ELSE IF {x \in r.roles : RoleMatches(x, profile)} = {}
             THEN FetchReturn(FetchErr("no_role", profile.name, profile.role)) /\ role' = role
             ELSE /\ role' \in {x \in r.roles : RoleMatches(x, profile)}
                  /\ fpc' = "assume"
                  /\ fetched' = fetched
  /\ UNCHANGED <<profile, links, app_link, storeVars, runVars, loginVars>>

\* aws::role::assume_role(role, saml.raw, profile.duration_seconds).await
\* .map_err(..)?, then .credentials.ok_or_else(..)?; main puts the
\* credentials returned into org_credentials under profile.name
AssumeRole ==
  /\ fpc = "assume"
  /\ calls' = Append(calls, FetchCall("assume_role", "", role, samlResult.raw,
                                      profile.duration_seconds))
  /\ \/ /\ FetchReturn(FetchErr("assume_role", profile.name, <<>>))
        /\ UNCHANGED orgCredentials
     \/ /\ FetchReturn(FetchErr("no_credentials", <<>>, <<>>))
        /\ UNCHANGED orgCredentials
     \/ \E c \in RunCredentials :
          /\ fetched' = FetchOk(c)
          /\ orgCredentials' = MapInsert(orgCredentials, profile.name, c)
          /\ fpc' = "upsert"
  /\ UNCHANGED <<profile, links, app_link, role, storeVars, pc, orgs, orgIdx, profIdx,
                 failure, log, lock, loginVars, samlVars>>

\* for (name, creds) in org_credentials { ...set_profile(name, creds)?; }
UpsertProfile ==
  /\ fpc = "upsert"
  /\ \E name \in DOMAIN orgCredentials :
       LET r == set_profile(store.credentials, name, orgCredentials[name])
       IN /\ store' = [store EXCEPT !.credentials = r.credentials]
          /\ call' = [op |-> "set_profile", name |-> name,
                      creds |-> orgCredentials[name], result |-> r.result]
          /\ orgCredentials' = MapRemove(orgCredentials, name)
  /\ fpc' = "done"
  /\ UNCHANGED <<disk, disk0, fileSections, phase, pc, orgs, orgIdx, profIdx, failure, log,
                 lock, profile, links, app_link, role, fetched, calls, loginVars, samlVars>>

FetchNext ==
  \/ AppLinks
  \/ GetSamlResponse
  \/ AssumeRole
  \/ UpsertProfile

SpecFetch == FetchInit /\ [][FetchNext]_vars

(***************************************************************************)
(* Properties of fetch_credentials                                         *)
(***************************************************************************)
AssumeCalls == {i \in 1..Len(calls) : calls[i].op = "assume_role"}

\* the assertion fetched decoded and parsed as a document, and its role
\* query matched no node
NoRoleNodes ==
  /\ samlResult # NoSamlResult
  /\ samlInput.encoding = "ok" /\ samlInput.xml = "ok"
  /\ samlInput.nodes = <<>>

\* C12: an assertion whose role query matches no node parses to a Response
\* with an empty role set; fetch_credentials then returns the "No matching
\* role" error with the profile's role and name, it made no role-assumption
\* call, and nothing is set in the store.
C12_EmptyRoleSet ==
  NoRoleNodes =>
    /\ samlResult = SamlOk(samlInput, {})
    /\ fpc = "done"
    /\ fetched = FetchErr("no_role", profile.name, profile.role)
    /\ AssumeCalls = {}
    /\ orgCredentials = EmptyMap
    /\ call = NoCall

C12_Witness ==
  /\ NoRoleNodes
  /\ samlResult.kind = "Ok" /\ samlResult.roles = {}
  /\ fetched.kind = "Err" /\ fetched.error.step = "no_role"
  /\ fetched.error.name = profile.name /\ fetched.error.role = profile.role
  /\ Len(calls) = 2 /\ calls[2].op = "get_saml_response"

\* the client listed the application links
Listed == fpc # "app_links" /\ fetched.error.step # "app_links"

\* C18: every role-assumption call carries a role of the parsed role set
\* whose role name is the profile's role, the assertion as it was fetched
\* (the Response's raw is the parser's input) and the profile's duration,
\* and the assertion was asked for with the URL of a listed link of type
\* amazon_aws whose label is the profile's application name; with no such
\* link, or no such role, fetch_credentials returns an error that names
\* the profile and makes no role-assumption call; the credentials returned
\* are set in the store under the profile's name alone.
C18_AssumeRoleCall ==
  /\ \A i \in AssumeCalls :
       /\ calls[i].role \in samlResult.roles
       /\ calls[i].role.role_arn = <<"x", "/">> \o profile.role
       /\ samlResult.raw = samlInput
       /\ calls[i].raw = samlInput
       /\ calls[i].duration_seconds = profile.duration_seconds
       /\ \E k \in 1..Len(links) : links[k] = app_link
       /\ app_link.app_name = "amazon_aws"
       /\ app_link.label = profile.application_name
       /\ i = 3
       /\ calls[2].op = "get_saml_response" /\ calls[2].link_url = app_link.link_url
  /\ (Listed /\ ~\E k \in 1..Len(links) :
                   links[k].app_name = "amazon_aws" /\ links[k].label = profile.application_name)
       => /\ fetched = FetchErr("no_application", profile.name, <<>>)
          /\ Len(calls) = 1
  /\ (samlResult.kind = "Ok" /\ ~\E r \in samlResult.roles :
                                    r.role_arn = <<"x", "/">> \o profile.role)
       => /\ fetched = FetchErr("no_role", profile.name, profile.role)
          /\ AssumeCalls = {}
  /\ DOMAIN orgCredentials \subseteq {profile.name}
  /\ \A n \in DOMAIN orgCredentials : fetched.kind = "Ok" /\ orgCredentials[n] = fetched.credentials
  /\ call.op = "set_profile" =>
       /\ call.name = profile.name
       /\ fetched.kind = "Ok" /\ call.creds = fetched.credentials
       /\ AssumeCalls = {3}

\* the second of two listed links is the one that matches, the assertion
\* holds two roles, and the credentials of the role assumed were set
C18_Witness ==
  /\ fpc = "done"
  /\ call.op = "set_profile" /\ call.result = "Ok"
  /\ store.credentials[profile.name] = FromCredentials(fetched.credentials)
  /\ Len(links) = 2 /\ links[1].app_name = "other" /\ links[1].label = profile.application_name
  /\ app_link = links[2]
  /\ Cardinality(samlResult.roles) = 2
  /\ profile.role = <<"s">>
  /\ AssumeCalls = {3}

====
